---- MODULE Spec2Model ----
(***************************************************************************)
(* Model of the Sequencer dependency-graph engine (src/src/lib.rs).        *)
(*                                                                         *)
(* A SeqKey is modelled as the position of the node in the arena           *)
(* (1..Len(nodes)); the slotmap null key, which no arena contains, is      *)
(* NullKey.  A panic unwinds out of the engine: the state reached at the   *)
(* panic is kept, `panicked` is set and no further operation runs.         *)
(***************************************************************************)
EXTENDS Integers, Sequences, FiniteSets, TLC

VARIABLES roots, nodes, queued_nodes, active_nodes, panicked, pushes, steps,
          pc, started, panic_msg, built

vars == <<roots, nodes, queued_nodes, active_nodes, panicked, pushes, steps,
          pc, started, panic_msg, built>>

\* ---------------------------------------------------------------- bounds
MaxNodes == 4
MaxItems == 2
MaxParents == 2
MaxSteps == 5
MaxChain == 3
MaxCalls == 4

\* ------------------------------------------------------------- constants
NullKey == 0

Active == "Active"
Inactive == "Inactive"
Completed == "Completed"
NodeStatus == {Active, Inactive, Completed}

\* The payloads used by the crate's tests.
SeqItem == <<"Walk", "Wait", "Say">>

ItemAt(i) == SeqItem[((i - 1) % 3) + 1]

\* The item vectors a caller passes: <<>>, <<Walk>>, <<Walk, Wait>>, ...
ItemVecs == {[i \in 1..k |-> ItemAt(i)] : k \in 0..MaxItems}

\* ------------------------------------------------------------ the engine
\* The Sequencer value the methods work on (&mut self), with the history
\* counter `pushes` (number of queued_nodes.push calls per key) and
\* `visited`, the keys the call in progress has passed to its closure f.
Self ==
  [roots |-> roots, nodes |-> nodes, queued_nodes |-> queued_nodes,
   active_nodes |-> active_nodes, panicked |-> panicked, pushes |-> pushes,
   visited |-> <<>>, panic_msg |-> panic_msg]

Keys(s) == 1..Len(s.nodes)

\* self.nodes[key] panics when the key is not in the slotmap.
Contains(s, key) == key \in Keys(s)

\* panic!(msg): the first panic unwinds, its message is the one reported.
Panic(s, msg) == [s EXCEPT !.panicked = TRUE, !.panic_msg = msg]

\* The message of indexing a SlotMap with a key it does not contain.
InvalidKey == "invalid SlotMap key used"

\* queued_nodes.push(key)
PushQueued(s, key) ==
  [s EXCEPT !.queued_nodes = Append(@, key),
            !.pushes = [k \in Keys(s) |-> IF k = key THEN @[k] + 1 ELSE @[k]]]

create_node(s, item) ==
  [s EXCEPT !.nodes = Append(@, [parents |-> <<>>, children |-> <<>>,
                                 status |-> Inactive, item |-> item]),
            !.pushes = Append(@, 0)]

\* for pkey in parents { self.nodes[pkey].children.push(key) }
RECURSIVE PushToParents(_, _, _, _)
PushToParents(s, parents, i, key) ==
  IF i > Len(parents) THEN s
  ELSE IF ~Contains(s, parents[i]) THEN Panic(s, InvalidKey)
  ELSE PushToParents(
         [s EXCEPT !.nodes[parents[i]].children = Append(@, key)],
         parents, i + 1, key)

create_node_with_parents(s, parents, item) ==
  LET s1 == create_node(s, item)
      key == Len(s1.nodes)
      s2 == PushToParents(s1, parents, 1, key)
  IN IF s2.panicked THEN s2
     ELSE [s2 EXCEPT !.nodes[key].parents = parents]

\* A root that is created and listed but not queued.
new_node_unqueued(s, item) ==
  LET s1 == create_node(s, item)
      key == Len(s1.nodes)
  IN [s1 EXCEPT !.roots = Append(@, key)]

new_node(s, item) ==
  LET s1 == create_node(s, item)
      key == Len(s1.nodes)
  IN PushQueued([s1 EXCEPT !.roots = Append(@, key)], key)

\* new_seq without the rotation: pop() would take the last item as the root
RotateLeft0(items) == items

\* items.rotate_left(1)
RotateLeft1(items) ==
  IF Len(items) = 0 THEN items ELSE Append(Tail(items), Head(items))

\* items.pop(): the value popped and the vector that is left
PopValue(items) == items[Len(items)]
PopRest(items) == SubSeq(items, 1, Len(items) - 1)

\* for item in items { prev_key = create_node_with_parents(vec![prev_key], item) }
RECURSIVE ChainRest(_, _, _)
ChainRest(s, items, i) ==
  IF s.panicked \/ i > Len(items) THEN s
  ELSE ChainRest(create_node_with_parents(s, <<Len(s.nodes)>>, items[i]),
                 items, i + 1)

new_seq(s, items) ==
  IF Len(items) = 0 THEN s
  ELSE LET rot == RotateLeft1(items)
           s1 == new_node(s, PopValue(rot))
       IN ChainRest(s1, PopRest(rot), 1)

new_child_seq(s, parents, items) ==
  IF Len(parents) = 0 THEN Panic(s, "Parent keys are empty")
  ELSE IF Len(items) = 0 THEN Panic(s, "Items are empty")
  ELSE LET rot == RotateLeft1(items)
           s1 == create_node_with_parents(s, parents, PopValue(rot))
       IN ChainRest(s1, PopRest(rot), 1)

inject_child_seq(s, parent, items) ==
  IF ~Contains(s, parent) THEN Panic(s, InvalidKey)
  ELSE LET parent_children == s.nodes[parent].children
           s1 == [s EXCEPT !.nodes[parent].children = <<>>]
           s2 == new_child_seq(s1, <<parent>>, items)
           last_key == Len(s2.nodes)
       IN IF s2.panicked THEN s2
          ELSE [s2 EXCEPT !.nodes[last_key].children = @ \o parent_children]

\* A readiness check that stops at the first completed parent.
SomeParentCompleted(s, ckey) ==
  \E i \in 1..Len(s.nodes[ckey].parents) :
     s.nodes[s.nodes[ckey].parents[i]].status = Completed

\* Check that all parents are completed
AllParentsCompleted(s, ckey) ==
  \A i \in 1..Len(s.nodes[ckey].parents) :
     s.nodes[s.nodes[ckey].parents[i]].status = Completed

RECURSIVE QueueChildrenFrom(_, _, _)
QueueChildrenFrom(s, key, i) ==
  IF i > Len(s.nodes[key].children) THEN s
  ELSE LET ckey == s.nodes[key].children[i]
       IN QueueChildrenFrom(
            IF AllParentsCompleted(s, ckey) THEN PushQueued(s, ckey) ELSE s,
            key, i + 1)

queue_ready_children(s, key) == QueueChildrenFrom(s, key, 1)

set_node_status(s, key, new_status) ==
  IF ~Contains(s, key) THEN Panic(s, InvalidKey)
  ELSE LET old == s.nodes[key].status
           s1 == IF old = Active /\ new_status = Completed
                   THEN [s EXCEPT !.active_nodes = @ \ {key}]
                 ELSE IF old = Inactive /\ new_status = Active
                   THEN [s EXCEPT !.active_nodes = @ \cup {key}]
                 ELSE s
       IN [s1 EXCEPT !.nodes[key].status = new_status]

\* node_finished that also takes the children list of the finished node
node_finished_detaching(s, key) ==
  LET s1 == set_node_status(s, key, Completed)
  IN IF s1.panicked THEN s1
     ELSE [queue_ready_children(s1, key) EXCEPT !.nodes[key].children = <<>>]

node_finished(s, key) ==
  LET s1 == set_node_status(s, key, Completed)
  IN IF s1.panicked THEN s1 ELSE queue_ready_children(s1, key)

\* f(node.key, &mut node.item)
Visit(s, key) == [s EXCEPT !.visited = Append(@, key)]

\* queued_nodes.drain(..).for_each(|key| set_node_status(key, Active); f(..))
RECURSIVE DrainFrom(_, _, _)
DrainFrom(s, queued, i) ==
  IF s.panicked \/ i > Len(queued) THEN s
  ELSE LET s1 == set_node_status(s, queued[i], Active)
       IN DrainFrom(IF s1.panicked THEN s1 ELSE Visit(s1, queued[i]),
                    queued, i + 1)

drain_queue(s) ==
  LET queued == s.queued_nodes
  IN DrainFrom([s EXCEPT !.queued_nodes = <<>>], queued, 1)

\* active_nodes.iter().for_each: `order` is the iteration order of the
\* HashSet clone, `finished` the keys for which f returns true.
RECURSIVE ForEachFrom(_, _, _, _)
ForEachFrom(s, order, finished, i) ==
  IF s.panicked \/ i > Len(order) THEN s
  ELSE LET s1 == Visit(s, order[i])
       IN ForEachFrom(
            IF order[i] \in finished THEN node_finished(s1, order[i]) ELSE s1,
            order, finished, i + 1)

for_each_active(s, order, finished) == ForEachFrom(s, order, finished, 1)

\* A pending check that looks at the active set only.
is_active_ignoring_queue(s) == ~(s.active_nodes = {})

is_active(s) == ~(s.active_nodes = {} /\ s.queued_nodes = <<>>)

\* --------------------------------------------------------------- inputs
\* Handles a caller can pass: the keys of the arena and the null key.
Handles == Keys(Self) \cup {NullKey}

\* The parent vectors a caller passes: the spec calls them a set of handles,
\* so each set of at most MaxParents handles is passed once, in key order.
IsIncreasing(q) == \A i \in 1..(Len(q) - 1) : q[i] < q[i + 1]

ParentVecs ==
  UNION {{q \in [1..k -> Handles] : IsIncreasing(q)} : k \in 0..MaxParents}

\* The iteration orders of a set: its enumerations without repetition.
Orders(S) ==
  {q \in [1..Cardinality(S) -> S] : \A i, j \in 1..Cardinality(S) :
                                       i # j => q[i] # q[j]}

\* The model stays within the bounds: number of calls and arena size.
WithinBounds(s) ==
  /\ steps < MaxSteps
  /\ Len(s.nodes) <= MaxNodes

\* The call returns (or unwinds) and leaves the engine as s.
Becomes(s) ==
  /\ steps < MaxSteps
  /\ LET t == s
     IN /\ WithinBounds(t)
        /\ roots' = t.roots
        /\ nodes' = t.nodes
        /\ queued_nodes' = t.queued_nodes
        /\ active_nodes' = t.active_nodes
        /\ panicked' = t.panicked
        /\ panic_msg' = t.panic_msg
        /\ pushes' = t.pushes
        /\ steps' = steps + 1
        /\ UNCHANGED <<pc, started, built>>

\* --------------------------------------------------------------- actions
Init ==
  /\ roots = <<>>
  /\ nodes = <<>>
  /\ queued_nodes = <<>>
  /\ active_nodes = {}
  /\ panicked = FALSE
  /\ pushes = <<>>
  /\ steps = 0
  /\ pc = "api"
  /\ started = <<>>
  /\ panic_msg = ""
  /\ built = <<>>

\* new_child_seq panics on an empty `parents` before it reads `items`, on an
\* empty `items` before it reads a parent, and on an absent parent while it
\* creates the first node: the calls that differ only in the argument the code
\* never reads are one call, drawn once.
ChildSeqCall(parents, items) ==
  /\ (parents = <<>> \/ NullKey \in {parents[i] : i \in 1..Len(parents)})
       => Len(items) <= 1
  /\ items = <<>> => Len(parents) <= 1

NewNode ==
  /\ pc = "api" /\ ~panicked /\ steps < MaxSteps
  /\ \E item \in {ItemAt(1)} : Becomes(new_node(Self, item))

NewSeq ==
  /\ pc = "api" /\ ~panicked /\ steps < MaxSteps
  /\ \E items \in ItemVecs : Becomes(new_seq(Self, items))

NewChildSeq ==
  /\ pc = "api" /\ ~panicked /\ steps < MaxSteps
  /\ \E parents \in ParentVecs, items \in ItemVecs :
       /\ ChildSeqCall(parents, items)
       /\ Len(nodes) + Len(items) <= MaxNodes
       /\ Becomes(new_child_seq(Self, parents, items))

InjectChildSeq ==
  /\ pc = "api" /\ ~panicked /\ steps < MaxSteps
  /\ \E parent \in Handles, items \in ItemVecs :
       /\ ChildSeqCall(<<parent>>, items)
       /\ Len(nodes) + Len(items) <= MaxNodes
       /\ Becomes(inject_child_seq(Self, parent, items))

NodeFinished ==
  /\ pc = "api" /\ ~panicked /\ steps < MaxSteps
  /\ \E key \in Handles : Becomes(node_finished(Self, key))

DrainQueue ==
  /\ pc = "api" /\ ~panicked /\ steps < MaxSteps
  /\ Becomes(drain_queue(Self))

ForEachActive ==
  /\ pc = "api" /\ ~panicked /\ steps < MaxSteps
  /\ \E order \in Orders(active_nodes), finished \in SUBSET active_nodes :
       Becomes(for_each_active(Self, order, finished))

Next ==
  \/ NewNode
  \/ NewSeq
  \/ NewChildSeq
  \/ InjectChildSeq
  \/ NodeFinished
  \/ DrainQueue
  \/ ForEachActive

Spec == Init /\ [][Next]_vars

\* ------------------------------------------------------ the driver loop
\* The program of the crate's examples: build a graph, then
\*   while sequencer.is_active() { drain_queue(..); for_each_active(..) }
\* `built` is the list of construction calls made, `started` the keys the
\* drain closure ("Started: ...") has received, `pc` the position in main.

\* The item vectors the program passes to new_seq (counters_linear: three).
ChainVecs == {[i \in 1..k |-> ItemAt(i)] : k \in 1..MaxChain}

\* A statement of main has run: the engine is s, control is at next_pc.
Runs(s, next_pc, log, call) ==
  LET t == s
  IN /\ Len(t.nodes) <= MaxNodes
     /\ roots' = t.roots
     /\ nodes' = t.nodes
     /\ queued_nodes' = t.queued_nodes
     /\ active_nodes' = t.active_nodes
     /\ panicked' = t.panicked
     /\ panic_msg' = t.panic_msg
     /\ pushes' = t.pushes
     /\ pc' = next_pc
     /\ started' = started \o log
     /\ built' = built \o call
     /\ UNCHANGED steps

LoopInit ==
  /\ roots = <<>>
  /\ nodes = <<>>
  /\ queued_nodes = <<>>
  /\ active_nodes = {}
  /\ panicked = FALSE
  /\ panic_msg = ""
  /\ pushes = <<>>
  /\ steps = 0
  /\ pc = "build"
  /\ started = <<>>
  /\ built = <<>>

BuildNode ==
  /\ pc = "build" /\ ~panicked /\ Len(built) < MaxCalls
  /\ \E item \in {ItemAt(1)} :
       Runs(new_node(Self, item), "build", <<>>,
            <<[op |-> "new_node", handles |-> <<>>, items |-> <<item>>]>>)

BuildSeq ==
  /\ pc = "build" /\ ~panicked /\ Len(built) < MaxCalls
  /\ \E items \in ChainVecs :
       Runs(new_seq(Self, items), "build", <<>>,
            <<[op |-> "new_seq", handles |-> <<>>, items |-> items]>>)

BuildChildSeq ==
  /\ pc = "build" /\ ~panicked /\ Len(built) < MaxCalls
  /\ \E parents \in ParentVecs, items \in ItemVecs :
       /\ ChildSeqCall(parents, items)
       /\ Len(nodes) + Len(items) <= MaxNodes
       /\ Runs(new_child_seq(Self, parents, items), "build", <<>>,
            <<[op |-> "new_child_seq", handles |-> parents, items |-> items]>>)

BuildInject ==
  /\ pc = "build" /\ ~panicked /\ Len(built) < MaxCalls
  /\ \E parent \in Handles, items \in ItemVecs :
       /\ ChildSeqCall(<<parent>>, items)
       /\ Len(nodes) + Len(items) <= MaxNodes
       /\ Runs(inject_child_seq(Self, parent, items), "build", <<>>,
            <<[op |-> "inject_child_seq", handles |-> <<parent>>,
               items |-> items]>>)

\* while sequencer.is_active()
LoopCheck ==
  /\ pc \in {"build", "check"} /\ ~panicked
  /\ Runs(Self, IF is_active(Self) THEN "drain" ELSE "done", <<>>, <<>>)

LoopDrain ==
  /\ pc = "drain"
  /\ LET t == drain_queue(Self) IN Runs(t, "scan", t.visited, <<>>)

\* item.tick() reports finished for the keys in `finished`
LoopScan ==
  /\ pc = "scan"
  /\ \E order \in Orders(active_nodes), finished \in SUBSET active_nodes :
       Runs(for_each_active(Self, order, finished), "check", <<>>, <<>>)

LoopNext ==
  \/ BuildNode
  \/ BuildSeq
  \/ BuildChildSeq
  \/ BuildInject
  \/ LoopCheck
  \/ LoopDrain
  \/ LoopScan

SpecLoop == LoopInit /\ [][LoopNext]_vars

TypeOK ==
  /\ \A k \in Keys(Self) : nodes[k].status \in NodeStatus
  /\ active_nodes \subseteq Keys(Self)

\* ------------------------------------------------------- claim vocabulary
Range(q) == {q[i] : i \in 1..Len(q)}

StatusOf(k) == nodes[k].status

ParentsOf(k) == Range(nodes[k].parents)

ChildrenOf(k) == Range(nodes[k].children)

HasParents(k) == nodes[k].parents # <<>>

ParentsDone(k) == \A p \in ParentsOf(k) : StatusOf(p) = Completed

\* k gained an occurrence in the ready queue in this step.
Enqueued(k) == pushes'[k] > pushes[k]

\* Inactive < Active < Completed
Rank(st) == CASE st = Inactive -> 0 [] st = Active -> 1 [] st = Completed -> 2

\* The engine state a caller can observe, without the history variables.
engine == <<roots, nodes, queued_nodes, active_nodes>>
\* ---------------------------------------------------------------- claims

\* k is still registered as a child on each of its parents (no
\* inject_child_seq has moved it under another node).
Attached(k) == \A p \in ParentsOf(k) : k \in ChildrenOf(p)

\* p goes to Completed in this step.
Completes(p) == StatusOf(p) # Completed /\ nodes'[p].status = Completed

\* C1: a node with parents is pushed onto queued_nodes exactly once in the
\* engine's lifetime: in the step in which its last outstanding parent
\* becomes Completed, and never a second time by a later completion.
C1_EnqueuedExactlyOnce ==
  [][\A k \in Keys(Self) :
        HasParents(k) =>
          /\ pushes'[k] <= 1
          /\ Enqueued(k) =>
                /\ ParentsDone(k)'
                /\ \E p \in Keys(Self) : k \in ChildrenOf(p) /\ Completes(p)
          /\ (Attached(k) /\ ~ParentsDone(k) /\ ParentsDone(k)')
                => Enqueued(k)]_vars

\* C2: the status of a node never regresses: no step takes it from Active
\* back to Inactive or out of Completed.
C2_StatusNeverRegresses ==
  [][\A k \in Keys(Self) :
        Rank(nodes'[k].status) >= Rank(nodes[k].status)]_vars

\* C3: node_finished on a key that is already Completed leaves the engine
\* (statuses, edges, ready queue, active set) unchanged.
C3_MarkCompleteIdempotent ==
  [][\A key \in Keys(Self) :
        (StatusOf(key) = Completed /\ Becomes(node_finished(Self, key)))
          => UNCHANGED engine]_vars

\* C4: new_child_seq with a non-empty parent vector whose parents are all
\* Completed at call time leaves the first new node in the ready queue.
C4_EagerReadiness ==
  [][\A parents \in ParentVecs, items \in ItemVecs :
        ( /\ parents # <<>>
          /\ items # <<>>
          /\ Range(parents) \subseteq Keys(Self)
          /\ \A p \in Range(parents) : StatusOf(p) = Completed
          /\ Becomes(new_child_seq(Self, parents, items)) )
          => (Len(nodes) + 1) \in Range(queued_nodes')]_vars

\* c was moved under q by inject_child_seq: it is in q's children list
\* although q is not one of its parents.
FormerChild(c, q) == c \in ChildrenOf(q) /\ q \notin ParentsOf(c)

\* C5: after inject_child_seq, a node of the injected chain is in the ready
\* queue once its only parent completes, and a former child of the parent
\* enters the ready queue only in a state where the last injected node is
\* Completed, whatever other parents it has.
C5_InjectedBeforeFormerChildren ==
  [][ /\ \A q, n \in Keys(Self) :
           ( /\ n \in ChildrenOf(q)
             /\ nodes[n].parents = <<q>>
             /\ StatusOf(q) # Completed
             /\ nodes'[q].status = Completed )
             => n \in Range(queued_nodes')
      /\ \A q, c \in Keys(Self) :
           (FormerChild(c, q) /\ Enqueued(c))
             => nodes'[q].status = Completed ]_vars

\* C6: a node is absent from the ready queue as long as one of its parents
\* is not Completed: every queued node has all its parents Completed.
C6_QueuedOnlyWhenParentsCompleted ==
  \A k \in Range(queued_nodes) :
     \A p \in ParentsOf(k) : StatusOf(p) = Completed

\* A child of two distinct parents is queued, both parents being Completed.
C6_Witness ==
  \E k \in Range(queued_nodes) :
     /\ Cardinality(ParentsOf(k)) >= 2
     /\ StatusOf(k) = Inactive
     /\ \A p \in ParentsOf(k) : StatusOf(p) = Completed

\* C7: no key is in the ready queue and in the active set at once.
C7_QueueActiveDisjoint ==
  Range(queued_nodes) \cap active_nodes = {}

\* C8: between calls, active_nodes is exactly the set of keys whose status
\* is Active.
C8_ActiveSetExact ==
  ~panicked => active_nodes = {k \in Keys(Self) : StatusOf(k) = Active}

\* C9: between calls, the keys in the ready queue are exactly the Inactive
\* nodes whose parents are all Completed (or that have no parents).
C9_ReadyQueueExact ==
  ~panicked =>
    Range(queued_nodes) =
      {k \in Keys(Self) : StatusOf(k) = Inactive /\ ParentsDone(k)}

\* C10: every status change is Inactive -> Active made by drain_queue, or
\* Active -> Completed made by for_each_active or node_finished.
C10_LegalTransitions ==
  [][\A k \in Keys(Self) :
        nodes'[k].status # nodes[k].status =>
          \/ /\ nodes[k].status = Inactive
             /\ nodes'[k].status = Active
             /\ Becomes(drain_queue(Self))
          \/ /\ nodes[k].status = Active
             /\ nodes'[k].status = Completed
             /\ \/ \E key \in Handles : Becomes(node_finished(Self, key))
                \/ \E order \in Orders(active_nodes),
                      finished \in SUBSET active_nodes :
                        Becomes(for_each_active(Self, order, finished))]_vars

NoDup(q) == \A i, j \in 1..Len(q) : i # j => q[i] # q[j]

\* C11: one drain_queue call never passes the same key to its closure twice;
\* it yields only keys that are in the ready queue and leaves the queue
\* empty, so a key is yielded again only after it was pushed again.
C11_DrainYieldsOnce ==
  [][Becomes(drain_queue(Self)) =>
        LET v == drain_queue(Self).visited
        IN /\ NoDup(v)
           /\ Range(v) \subseteq Range(queued_nodes)
           /\ queued_nodes' = <<>>]_vars

\* C12: drain_queue passes every key of the ready queue to the closure, in
\* queue order; afterwards the queue is empty and every key that was in it
\* has status Active and is in active_nodes.
C12_DrainActivatesQueue ==
  [][Becomes(drain_queue(Self)) =>
        /\ drain_queue(Self).visited = queued_nodes
        /\ queued_nodes' = <<>>
        /\ \A k \in Range(queued_nodes) :
              nodes'[k].status = Active /\ k \in active_nodes']_vars

\* C13: for_each_active calls the closure exactly once for each node whose
\* status is Active at the start and for no other node; a node reported
\* finished ends Completed and out of active_nodes with its ready children
\* queued, a node reported not finished stays Active.
C13_ScanVisitsActive ==
  [][\A order \in Orders(active_nodes), finished \in SUBSET active_nodes :
        Becomes(for_each_active(Self, order, finished)) =>
          LET v == for_each_active(Self, order, finished).visited
          IN /\ NoDup(v)
             /\ Range(v) = {k \in Keys(Self) : StatusOf(k) = Active}
             /\ \A k \in finished :
                   /\ nodes'[k].status = Completed
                   /\ k \notin active_nodes'
                   /\ \A c \in ChildrenOf(k) :
                         (\A p \in ParentsOf(c) : nodes'[p].status = Completed)
                           => c \in Range(queued_nodes')
             /\ \A k \in Range(v) \ finished :
                   nodes'[k].status = Active /\ k \in active_nodes']_vars

\* C15: a chain-construction call with an empty item vector does not crash,
\* creates no node and leaves the engine, the parent's children list
\* included, unchanged.
C15_EmptyItemsRejected ==
  [][ ( \/ Becomes(new_seq(Self, <<>>))
        \/ \E parents \in ParentVecs :
              /\ parents # <<>>
              /\ Range(parents) \subseteq Keys(Self)
              /\ Becomes(new_child_seq(Self, parents, <<>>))
        \/ \E parent \in Keys(Self) :
              Becomes(inject_child_seq(Self, parent, <<>>)) )
      => (~panicked' /\ UNCHANGED engine) ]_vars

\* C16: a call that is given a handle absent from the arena ends without a
\* crash and leaves the whole engine (arena, roots, ready queue, active
\* set, statuses and edges) unchanged.
C16_UnknownHandleRecoverable ==
  [][ ( \/ Becomes(node_finished(Self, NullKey))
        \/ \E parents \in ParentVecs, items \in ItemVecs :
              /\ items # <<>>
              /\ NullKey \in Range(parents)
              /\ Becomes(new_child_seq(Self, parents, items))
        \/ \E items \in ItemVecs :
              /\ items # <<>>
              /\ Becomes(inject_child_seq(Self, NullKey, items)) )
      => (~panicked' /\ UNCHANGED engine) ]_vars

Count(q, x) == Cardinality({i \in 1..Len(q) : q[i] = x})

\* x and y are drained roots whose only child is z = new_child_seq([x, y], [Z]).
CommonChild(x, y, z) ==
  /\ ~panicked
  /\ x # y
  /\ {x, y} \subseteq Range(roots)
  /\ {x, y} \subseteq active_nodes
  /\ StatusOf(x) = Active /\ StatusOf(y) = Active
  /\ ParentsOf(z) = {x, y}
  /\ nodes[x].children = <<z>> /\ nodes[y].children = <<z>>
  /\ StatusOf(z) = Inactive /\ z \notin Range(queued_nodes)

\* C17: for two drained roots with a common child chain, completing x then
\* y and completing y then x give the same engine: x and y Completed, z in
\* the ready queue exactly once, the same active set.
C17_CompletionOrderCommutes ==
  \A x, y, z \in Keys(Self) :
     CommonChild(x, y, z) =>
       LET xy == node_finished(node_finished(Self, x), y)
           yx == node_finished(node_finished(Self, y), x)
       IN /\ xy = yx
          /\ xy.nodes[x].status = Completed
          /\ xy.nodes[y].status = Completed
          /\ Count(xy.queued_nodes, z) = 1
          /\ Count(yx.queued_nodes, z) = 1
          /\ xy.active_nodes = active_nodes \ {x, y}

\* Both roots of a common child were drained and have completed, and the
\* child is the one entry of the ready queue.
C17_Witness ==
  \E x, y, z \in Keys(Self) :
     /\ x # y
     /\ {x, y} \subseteq Range(roots)
     /\ ParentsOf(z) = {x, y}
     /\ StatusOf(x) = Completed /\ StatusOf(y) = Completed
     /\ active_nodes = {}
     /\ StatusOf(z) = Inactive
     /\ queued_nodes = <<z>>

\* C18: new_node adds one parentless node that is in roots and in the ready
\* queue when the call returns; new_seq of n items adds exactly n nodes,
\* the first of them a queued root, and pushes no other key.
C18_RootsQueuedOnCreation ==
  [][ /\ \A item \in {ItemAt(1)} :
           Becomes(new_node(Self, item)) =>
             LET key == Len(nodes) + 1
             IN /\ Len(nodes') = Len(nodes) + 1
                /\ nodes'[key].parents = <<>>
                /\ roots' = Append(roots, key)
                /\ queued_nodes' = Append(queued_nodes, key)
      /\ \A items \in ItemVecs :
           (items # <<>> /\ Becomes(new_seq(Self, items))) =>
             LET first == Len(nodes) + 1
             IN /\ Len(nodes') = Len(nodes) + Len(items)
                /\ \A k \in (Len(nodes) + 1)..Len(nodes') :
                      /\ nodes'[k].item = items[k - Len(nodes)]
                      /\ nodes'[k].parents = <<>> <=> k = first
                      /\ nodes'[k].parents = <<>> =>
                            k \in Range(roots') /\ k \in Range(queued_nodes')
                /\ roots' = Append(roots, first)
                /\ queued_nodes' = Append(queued_nodes, first) ]_vars

\* new_seq of two items has run on an empty engine: key 1 is a queued root,
\* key 2 its unqueued child.
C18_Witness ==
  /\ Len(nodes) = 2
  /\ roots = <<1>>
  /\ queued_nodes = <<1>>
  /\ nodes[1].parents = <<>>
  /\ nodes[2].parents = <<1>>
  /\ pushes = <<1, 0>>

\* C19: is_active returns true exactly when the ready queue or the active
\* set is non-empty: true right after new_node, still true after the
\* root is drained, false once the only node has been marked finished.
C19_IsActiveIffPending ==
  [][ /\ is_active(Self) <=> (queued_nodes # <<>> \/ active_nodes # {})
      /\ is_active(Self)' <=> (queued_nodes' # <<>> \/ active_nodes' # {})
      /\ (\E item \in {ItemAt(1)} : Becomes(new_node(Self, item)))
           => is_active(Self)'
      /\ ( /\ \E k \in Range(queued_nodes) : StatusOf(k) = Inactive
           /\ Becomes(drain_queue(Self)) )
           => is_active(Self)'
      /\ ( /\ Len(nodes) = 1 /\ StatusOf(1) = Active
           /\ active_nodes = {1} /\ queued_nodes = <<>>
           /\ Becomes(node_finished(Self, 1)) )
           => ~is_active(Self)' ]_vars

\* The only node was inserted, drained and marked finished.
C19_Witness ==
  /\ Len(nodes) = 1
  /\ StatusOf(1) = Completed
  /\ queued_nodes = <<>>
  /\ active_nodes = {}
  /\ ~panicked

\* The program is counters_linear: one new_seq call and then the loop.
ChainBuilt == Len(built) = 1 /\ built[1].op = "new_seq"

\* C14: after one new_seq(items) the drain closure receives the items in the
\* order given, each node once and nothing after the last; is_active() is true
\* at every loop check until the node of the last item is Completed and false
\* from then on, and the loop ends with every item started.
C14_ChainRunsInOrder ==
  ChainBuilt =>
    LET items == built[1].items
        n == Len(items)
    IN /\ Len(nodes) = n
       /\ Len(started) <= n
       /\ NoDup(started)
       /\ \A i \in 1..Len(started) : nodes[started[i]].item = items[i]
       /\ nodes[n].item = items[n]
       /\ is_active(Self) <=> StatusOf(n) # Completed
       /\ pc = "done" => Len(started) = n

C14_Witness ==
  /\ pc = "done"
  /\ ChainBuilt
  /\ built[1].items = <<"Walk", "Wait", "Say">>
  /\ started = <<1, 2, 3>>
  /\ StatusOf(3) = Completed

\* C20 (final state): when the driver loop has ended (is_active() returned
\* false) every node of the arena is Completed.
C20_LoopEndsAllCompleted ==
  pc = "done" => \A k \in Keys(Self) : StatusOf(k) = Completed

\* The parent and child edge lists agree.
EdgesAgree ==
  \A p, c \in Keys(Self) : c \in ChildrenOf(p) <=> p \in ParentsOf(c)

\* The root list holds exactly the nodes without parents.
RootsExact == \A k \in Keys(Self) : k \in Range(roots) <=> ~HasParents(k)

\* C21: after any sequence of construction calls (none of which panicked)
\* c is on p's children list iff p is on c's parents list, and a node is on
\* the root list iff its parents list is empty.
C21_EdgeListsAgree ==
  (pc = "build" /\ ~panicked) => (EdgesAgree /\ RootsExact)

\* A call of drain_queue, for_each_active or node_finished takes this step.
SchedulingStep ==
  \/ Becomes(drain_queue(Self))
  \/ \E key \in Handles : Becomes(node_finished(Self, key))
  \/ \E order \in Orders(active_nodes), finished \in SUBSET active_nodes :
       Becomes(for_each_active(Self, order, finished))

\* The arena's handles, the root list and every node's edge lists are kept.
GraphKept ==
  /\ Len(nodes') = Len(nodes)
  /\ roots' = roots
  /\ \A k \in Keys(Self) : /\ nodes'[k].parents = nodes[k].parents
                            /\ nodes'[k].children = nodes[k].children

\* C22: drain_queue, for_each_active and node_finished leave the set of
\* handles, the root list and every parents and children list as they were
\* (is_active takes &self and changes nothing); no step of any operation
\* removes a node from the arena.
C22_SchedulingKeepsGraph ==
  [][/\ GraphKept \/ ~SchedulingStep
     /\ Len(nodes') >= Len(nodes)]_vars

\* Scheduling operations have acted on a graph with an edge: a parent is
\* Completed and its child has been started.
C22_Witness ==
  /\ ~panicked
  /\ \E p, c \in Keys(Self) : /\ c \in ChildrenOf(p)
                               /\ p \in ParentsOf(c)
                               /\ StatusOf(p) = Completed
                               /\ StatusOf(c) = Active
                               /\ c \in active_nodes
====
